---- MODULE Spec2Model ----
(***************************************************************************)
(* A model of the gridflow_api ingestion-to-forecast pipeline:             *)
(*   - the job state machine of app/workers/tasks.py (process_job,         *)
(*     _run_pipeline and its stage helpers), one database session per run, *)
(*   - the enrichment cache of app/services/weather.py and holidays.py,    *)
(*   - the stage-gated readers of app/api/v1/endpoints/jobs.py,            *)
(*   - the upload endpoint of app/api/v1/endpoints/upload.py,              *)
(*   - the forecast shaping of app/services/forecaster.py.                 *)
(* The calendar is scaled: a year is the days Feb-28, (Feb-29), Mar-1 of   *)
(* HoursPerDay hours each, so a leap year is one day longer than a         *)
(* non-leap year exactly as 8,784 is to 8,760.                             *)
(***************************************************************************)
EXTENDS Integers, Sequences, FiniteSets, TLC

VARIABLES
    settings,              \* app.config.settings: the fields the pipeline reads
    jobs,                  \* table jobs: the committed rows, by job id
    time_series,           \* table time_series: committed rows
    forecasts,             \* table forecasts: committed rows
    weather_observations,  \* table weather_observations: committed rows
    public_holidays,       \* table public_holidays: committed rows
    broker,                \* the dispatcher: job id -> messages queued, deliveries made
    run,                   \* worker slot -> the _run_pipeline invocation it executes
    fx,                    \* session -> the ensure_cached call it executes
    calls,                 \* session -> the ensure_cached calls it has returned from
    lastRead,              \* the response of the API request of the last step
    fc                     \* the inputs and the result of the pure function under check

vars == << settings, jobs, time_series, forecasts, weather_observations,
           public_holidays, broker, run, fx, calls, lastRead, fc >>

None == "None"

\* The response of the API request served by the last step; NoResponse
\* after a step of a worker
Response(endpoint, job, code, detail, seen) ==
    [endpoint |-> endpoint, job |-> job, code |-> code, detail |-> detail, seen |-> seen]

NoResponse == Response(None, 0, 0, << None, None >>, None)

-----------------------------------------------------------------------------
(* Bounds *)

HoursPerDay == 2
ChunkRows == 2
MaxCalls == 2

-----------------------------------------------------------------------------
(* Calendar *)

IsLeap(y) == (y % 4 = 0) /\ ((y % 100 # 0) \/ (y % 400 = 0))

DaysOf(y) ==
    << <<2, 28>> >> \o (IF IsLeap(y) THEN << <<2, 29>> >> ELSE << >>) \o << <<3, 1>> >>

\* pd.date_range(start=Jan-1 Y, end=Jan-1 Y+1, freq="1h", inclusive="left")
HoursOfYear(y) ==
    LET days == DaysOf(y)
        n == Len(days) * HoursPerDay
    IN [k \in 1..n |->
          LET d == days[((k - 1) \div HoursPerDay) + 1]
          IN << y, d[1], d[2], (k - 1) % HoursPerDay >>]

SeqRange(s) == {s[i] : i \in 1..Len(s)}

Prefix(s, n) == [i \in 1..n |-> s[i]]

\* Lexicographic order of timestamps <<year, month, day, hour>>
TsLess(a, b) ==
    \/ a[1] < b[1]
    \/ a[1] = b[1] /\ a[2] < b[2]
    \/ a[1] = b[1] /\ a[2] = b[2] /\ a[3] < b[3]
    \/ a[1] = b[1] /\ a[2] = b[2] /\ a[3] = b[3] /\ a[4] < b[4]

NonLeapYearHours == 2 * HoursPerDay

-----------------------------------------------------------------------------
(* Enrichment cache: app/services/weather.py, app/services/holidays.py *)

Sessions == {1, 2}
CacheYears == {2025}
Kinds == {"weather", "holidays"}

\* The cache-hit threshold: 8,700 of the 8,760 hours of a non-leap year for
\* weather (one hour short of the scaled year), any row for holidays.
HitThreshold(kind) == IF kind = "weather" THEN NonLeapYearHours - 1 ELSE 1

\* select count() where ts >= Jan-1 Y and ts < Jan-1 Y+1 (dates: <= Dec-31 Y)
CachedRows(kind, year) ==
    IF kind = "weather"
    THEN {r \in weather_observations : r.key[1] = year}
    ELSE {r \in public_holidays : r.key[1] = year}

CachedCount(kind, year) == Cardinality(CachedRows(kind, year))

\* Faulty variant: the weather threshold is the length of a leap year
CacheHitLeapYear(kind, count) ==
    count >= (IF kind = "weather" THEN 3 * HoursPerDay ELSE 1)

CacheHit(kind, count) == count >= HitThreshold(kind)

\* What the provider may answer: the hours of the year up to some point
\* (Open-Meteo), the holidays of the year (Nager.Date), possibly none.
PayloadLens(year) == {0, 1, Len(HoursOfYear(year))}

WeatherPayloads(year) ==
    {Prefix(HoursOfYear(year), n) : n \in PayloadLens(year)}

HolidayPayloads(year) ==
    { << >>, << <<year, 3, 1>> >>, << <<year, 2, 28>>, <<year, 3, 1>> >> }

Payloads(kind, year) ==
    IF kind = "weather" THEN WeatherPayloads(year) ELSE HolidayPayloads(year)

\* The answers the jobs of the pipeline get: nothing, or the whole year
PipelinePayloads(kind, year) ==
    IF kind = "weather"
    THEN { << >>, HoursOfYear(year) }
    ELSE { << >>, << <<year, 3, 1>> >> }

FxIdle == [phase |-> "idle", kind |-> None, year |-> 0, rows |-> << >>,
           i |-> 0, pend |-> {}, fetched |-> FALSE]

Table(kind) == IF kind = "weather" THEN weather_observations ELSE public_holidays

Keys(rows) == {r.key : r \in rows}

\* Rows some other session has inserted and not yet committed: an insert of
\* the same primary key waits for that transaction to end.
LockedKeys(s) == UNION {Keys(fx[o].pend) : o \in {o \in Sessions : o # s /\ fx[o].kind = fx[s].kind}}

\* Faulty variant: a plain INSERT that takes every row of the chunk
InsertPlain(existing, chunk) ==
    existing \cup SeqRange(chunk)

\* pg_insert(...).values(chunk).on_conflict_do_nothing(index_elements=[key])
RECURSIVE InsertOnConflictDoNothing(_, _)
InsertOnConflictDoNothing(existing, chunk) ==
    IF chunk = << >> THEN existing
    ELSE LET r == Head(chunk)
             next == IF r.key \in Keys(existing) THEN existing ELSE existing \cup {r}
         IN InsertOnConflictDoNothing(next, Tail(chunk))

\* fetch_and_cache_*: the count query and the cache-hit return
EnsureCachedBegin(s, kind, year) ==
    /\ fx[s].phase = "idle"
    /\ fx' = [fx EXCEPT ![s] =
                IF CacheHit(kind, CachedCount(kind, year))
                THEN [FxIdle EXCEPT !.phase = "returned", !.kind = kind, !.year = year]
                ELSE [FxIdle EXCEPT !.phase = "http", !.kind = kind, !.year = year]]

\* client.get(...); resp.raise_for_status(); resp.json(); the rows built from it
\* (answers: what the provider may answer; val: the values of that answer)
ProviderFetch(s, answers, val) ==
    /\ fx[s].phase = "http"
    /\ \/ \* the request fails, times out, or the payload cannot be mapped
          fx' = [fx EXCEPT ![s].phase = "raised", ![s].fetched = TRUE]
       \/ \E p \in answers :
            fx' = [fx EXCEPT ![s].fetched = TRUE,
                             ![s].rows = [k \in 1..Len(p) |-> [key |-> p[k], val |-> val]],
                             ![s].phase = IF p = << >> THEN "returned" ELSE "insert",
                             ![s].i = 1]
    /\ UNCHANGED << weather_observations, public_holidays >>

\* weather: chunks of chunk_size rows; holidays: one statement for all rows
ChunkEnd(s) ==
    IF fx[s].kind = "weather"
    THEN IF fx[s].i + ChunkRows - 1 < Len(fx[s].rows)
         THEN fx[s].i + ChunkRows - 1 ELSE Len(fx[s].rows)
    ELSE Len(fx[s].rows)

UpsertChunk(s) ==
    /\ fx[s].phase = "insert"
    /\ LET last == ChunkEnd(s)
           chunk == [k \in 1..(last - fx[s].i + 1) |-> fx[s].rows[fx[s].i + k - 1]]
           seen == Table(fx[s].kind) \cup fx[s].pend
           after == InsertOnConflictDoNothing(seen, chunk)
       IN /\ Keys(SeqRange(chunk)) \cap LockedKeys(s) = {}
          /\ fx' = [fx EXCEPT ![s].pend = after \ Table(fx[s].kind),
                              ![s].i = last + 1,
                              ![s].phase = IF last = Len(fx[s].rows)
                                           THEN "commit" ELSE "insert"]
    /\ UNCHANGED << weather_observations, public_holidays >>

CacheCommit(s) ==
    /\ fx[s].phase = "commit"
    /\ weather_observations' =
         IF fx[s].kind = "weather" THEN weather_observations \cup fx[s].pend
         ELSE weather_observations
    /\ public_holidays' =
         IF fx[s].kind = "holidays" THEN public_holidays \cup fx[s].pend
         ELSE public_holidays
    /\ fx' = [fx EXCEPT ![s].pend = {}, ![s].phase = "returned"]

-----------------------------------------------------------------------------
(* Forecast orchestration: app/services/forecaster.py *)

\* np.nan, kept apart from every value a row can hold
NaN == -1

\* weather_df: None, or a frame of rows
NoFrame == [absent |-> TRUE, rows |-> << >>]
Frame(rows) == [absent |-> FALSE, rows |-> rows]

\* The rows of a set of cache rows in ascending key order (ORDER BY ts)
RECURSIVE OrderByTs(_)
OrderByTs(rows) ==
    IF rows = {} THEN << >>
    ELSE LET first == CHOOSE r \in rows : \A o \in rows : o = r \/ ~TsLess(o.key, r.key)
         IN << first >> \o OrderByTs(rows \ {first})

\* _make_future_df: every hour of forecast_year, in order
MakeFutureDf(forecast_year) ==
    [k \in 1..Len(HoursOfYear(forecast_year)) |-> [ds |-> HoursOfYear(forecast_year)[k]]]

\* _shift_to_year: t.replace(year=target_year), Feb-29 to Feb-28
ShiftToYear(ts, target_year) ==
    IF ts[2] # 2 \/ ts[3] # 29
    THEN << target_year, ts[2], ts[3], ts[4] >>
    ELSE << target_year, 2, 28, ts[4] >>

\* DataFrame.merge(right, on="ds", how="left"): the left rows in order, one
\* output row per matching right row, one row of missing values when none
RECURSIVE LeftMerge(_, _)
LeftMerge(left, right) ==
    IF left = << >> THEN << >>
    ELSE LET ds == Head(left).ds
             hits == SelectSeq(right, LAMBDA r : r.ds = ds)
             out == IF hits = << >>
                    THEN << [ds |-> ds, temperature_2m |-> NaN] >>
                    ELSE hits
         IN out \o LeftMerge(Tail(left), right)

RECURSIVE SumOf(_)
SumOf(vals) == IF vals = << >> THEN 0 ELSE Head(vals) + SumOf(Tail(vals))

\* Series.mean(): missing values skipped, NaN when nothing is left
ColumnMean(frame) ==
    LET known == SelectSeq(frame, LAMBDA r : r.temperature_2m # NaN)
    IN IF known = << >> THEN NaN
       ELSE SumOf([k \in 1..Len(known) |-> known[k].temperature_2m]) \div Len(known)

\* Series.fillna(mean)
FillNa(frame) ==
    [k \in 1..Len(frame) |->
        IF frame[k].temperature_2m = NaN
        THEN [frame[k] EXCEPT !.temperature_2m = ColumnMean(frame)]
        ELSE frame[k]]

\* _align_weather_to_future
AlignWeatherToFuture(future_df, weather_df, forecast_year) ==
    LET w == IF weather_df[1].ts[1] # forecast_year
             THEN [k \in 1..Len(weather_df) |->
                     [ds |-> ShiftToYear(weather_df[k].ts, forecast_year),
                      temperature_2m |-> weather_df[k].temperature_2m]]
             ELSE [k \in 1..Len(weather_df) |->
                     [ds |-> weather_df[k].ts,
                      temperature_2m |-> weather_df[k].temperature_2m]]
    IN FillNa(LeftMerge(future_df, w))

\* m.predict(future_df): the engine's contract, one row per row of the future
\* frame with ordered bounds
EnginePredict(future_df) ==
    [k \in 1..Len(future_df) |->
        LET yhat == IF "temperature_2m" \in DOMAIN future_df[k]
                       /\ future_df[k].temperature_2m # NaN
                    THEN future_df[k].temperature_2m ELSE 0
        IN [ds |-> future_df[k].ds, yhat |-> yhat,
            yhat_lower |-> yhat - 1, yhat_upper |-> yhat + 1]]

\* sort_values("hour_ts"): insertion sort, stable
RECURSIVE SortByHour(_)
SortByHour(frame) ==
    IF frame = << >> THEN << >>
    ELSE LET rest == SortByHour(Tail(frame))
             h == Head(frame)
             before == SelectSeq(rest, LAMBDA r : TsLess(r.hour_ts, h.hour_ts))
             after == SelectSeq(rest, LAMBDA r : ~TsLess(r.hour_ts, h.hour_ts))
         IN before \o << h >> \o after

\* run_forecast, from the future frame on (lines 149-171)
ForecastFrame(forecast_year, weather_df) ==
    LET use_weather == ~weather_df.absent /\ weather_df.rows # << >>
        future_df == IF use_weather
                     THEN AlignWeatherToFuture(MakeFutureDf(forecast_year),
                                               weather_df.rows, forecast_year)
                     ELSE MakeFutureDf(forecast_year)
        forecast == SelectSeq(EnginePredict(future_df),
                              LAMBDA r : r.ds[1] = forecast_year)
    IN SortByHour([k \in 1..Len(forecast) |->
                     [hour_ts |-> forecast[k].ds, yhat |-> forecast[k].yhat,
                      yhat_lower |-> forecast[k].yhat_lower,
                      yhat_upper |-> forecast[k].yhat_upper]])

\* load_weather_df's frame from cache rows
WeatherFrame(rows) ==
    LET o == OrderByTs(rows)
    IN [k \in 1..Len(o) |-> [ts |-> o[k].key, temperature_2m |-> o[k].val]]

ForecastYears == {2024, 2025}

\* The enrichment inputs run_forecast can be given for a target year: absent,
\* or cached rows of the target year or of the year before it
WeatherInputs(forecast_year) ==
    {NoFrame} \cup
    UNION { { Frame(WeatherFrame({[key |-> h, val |-> 1] : h \in hs})) :
                hs \in (SUBSET SeqRange(HoursOfYear(y))) \ {{}} } :
            y \in {forecast_year - 1, forecast_year} }

InitForecast ==
    /\ \E y \in ForecastYears : \E w \in WeatherInputs(y) :
         fc = [forecast_year |-> y, weather_df |-> w, done |-> FALSE, result |-> << >>]

RunForecast ==
    /\ fc.forecast_year # 0
    /\ ~fc.done
    /\ fc' = [fc EXCEPT !.done = TRUE,
                        !.result = ForecastFrame(fc.forecast_year, fc.weather_df)]
    /\ UNCHANGED << settings, jobs, time_series, forecasts, weather_observations,
                    public_holidays, broker, run, fx, calls >>
    /\ lastRead' = NoResponse

-----------------------------------------------------------------------------
(* Jobs, the dispatcher and the upload endpoint *)

\* The jobs of the model: one upload is followed through the pipeline
JobIds == {1}

\* The deliveries of one process_job message the broker may make
MaxDeliveries == 2

\* The forecast year of the uploads of the model; the pipeline caches weather
\* for it and for the (leap) year before it.
UploadYears == {2025}

StageOrder == << "queued", "parsing", "normalizing", "enriching",
                 "quality_check", "forecasting", "complete" >>

JobStatus == SeqRange(StageOrder) \cup {"failed"}

\* _stage_index: the position in _STAGE_ORDER (0-based), -1 for failed
StageIndex(status) ==
    IF \E k \in 1..Len(StageOrder) : StageOrder[k] = status
    THEN (CHOOSE k \in 1..Len(StageOrder) : StageOrder[k] = status) - 1
    ELSE -1

NoJob == [status |-> None, file_name |-> None, gcs_raw_path |-> None,
          gcs_output_path |-> None,
          forecast_year |-> 0, error_message |-> None, quality_report |-> None,
          completed_at |-> None]

AllowedExtensions == {".csv", ".xlsx", ".xls"}

\* The uploads of the model: a load profile without gaps, one whose coverage
\* is below the pass threshold, and a file of an unsupported type
FileNames == {"clean.csv", "gappy.csv", "notes.txt"}

\* "." + filename.rsplit(".", 1)[-1].lower()
Extension(filename) == IF filename = "notes.txt" THEN ".txt" ELSE ".csv"

\* Faulty variant: the job is stored and dispatched before the file is
\* validated
UploadBeforeValidation(filename, empty, forecast_year) ==
    /\ Len(jobs) < Cardinality(JobIds)
    /\ jobs' = Append(jobs, [NoJob EXCEPT !.status = "queued",
                                          !.file_name = filename,
                                          !.gcs_raw_path = "gs://raw",
                                          !.forecast_year = forecast_year])
    /\ broker' = Append(broker, [queued |-> 1, deliveries |-> 0])
    /\ lastRead' = IF Extension(filename) \notin AllowedExtensions \/ empty
                   THEN Response("upload", 0, 422, << "rejected", None >>, None)
                   ELSE Response("upload", Len(jobs) + 1, 202, << "created", None >>,
                                 "queued")
    /\ UNCHANGED << settings, time_series, forecasts, weather_observations,
                    public_holidays, run, fx, calls, fc >>

\* upload_file: validation, the raw file stored, the job row, the dispatch
upload_file(filename, empty, forecast_year) ==
    /\ \/ /\ Extension(filename) \notin AllowedExtensions \/ empty
          /\ lastRead' = Response("upload", 0, 422, << "rejected", None >>, None)
          /\ UNCHANGED << jobs, broker >>
       \/ /\ Extension(filename) \in AllowedExtensions /\ ~empty
          /\ Len(jobs) < Cardinality(JobIds)
          /\ \E gcs_raw_path \in {"gs://raw", None} :
               jobs' = Append(jobs, [NoJob EXCEPT !.status = "queued",
                                                  !.file_name = filename,
                                                  !.gcs_raw_path = gcs_raw_path,
                                                  !.forecast_year = forecast_year])
          /\ broker' = Append(broker, [queued |-> 1, deliveries |-> 0])
          /\ lastRead' = Response("upload", Len(jobs) + 1, 202, << "created", None >>,
                                  "queued")
    /\ UNCHANGED << settings, time_series, forecasts, weather_observations,
                    public_holidays, run, fx, calls, fc >>

-----------------------------------------------------------------------------
(* The pipeline: app/workers/tasks.py *)

RunIdle == [pc |-> "idle", job |-> 0, mem |-> NoJob, dirty |-> {},
            pend_series |-> {}, pend_forecasts |-> {}, exc |-> None,
            attempted |-> 0, caught |-> {}, weather_df |-> NoFrame,
            holidays |-> {}]

\* job.<attr> = value on the session's Job object
Assign(r, attr, value) ==
    [r EXCEPT !.mem[attr] = value,
              !.dirty = IF value # r.mem[attr] THEN @ \cup {attr} ELSE @]

\* db.commit(): the changed attributes of the Job object and the rows
\* inserted since the last commit become visible to the other sessions
CommitTables(r) ==
    /\ jobs' = [jobs EXCEPT ![r.job] =
                  [a \in DOMAIN jobs[r.job] |->
                      IF a \in r.dirty THEN r.mem[a] ELSE jobs[r.job][a]]]
    /\ time_series' = time_series \cup r.pend_series
    /\ forecasts' = forecasts \cup r.pend_forecasts

Flushed(r) == [r EXCEPT !.dirty = {}, !.pend_series = {}, !.pend_forecasts = {}]

Busy(w) == run[w].pc \notin {"idle", "done", "raised"}

\* process_job / _run_pipeline lines 47-52: the worker takes the message and
\* loads the job
StartRun(w, j) ==
    /\ ~Busy(w)
    /\ j \in DOMAIN jobs
    /\ broker[j].queued > 0
    /\ broker' = [broker EXCEPT ![j].queued = @ - 1, ![j].deliveries = @ + 1]
    /\ run' = [run EXCEPT ![w] = [RunIdle EXCEPT !.pc = "parsing_set", !.job = j,
                                                 !.mem = jobs[j]]]
    /\ UNCHANGED << settings, jobs, time_series, forecasts, weather_observations,
                    public_holidays, fx, calls, fc >>
    /\ lastRead' = NoResponse

\* celery_app.conf task_acks_late: the message of a run in progress is not
\* acknowledged yet, and the broker hands it out again (visibility timeout,
\* lost connection of the worker)
Redeliver(j) ==
    /\ j \in DOMAIN jobs
    /\ \E w \in Sessions : run[w].job = j /\ Busy(w)
    /\ broker[j].queued = 0
    /\ broker[j].deliveries < MaxDeliveries
    /\ broker' = [broker EXCEPT ![j].queued = @ + 1]
    /\ UNCHANGED << settings, jobs, time_series, forecasts, weather_observations,
                    public_holidays, run, fx, calls, fc >>
    /\ lastRead' = NoResponse

\* Faulty variant: the quality check stage writes the status of an earlier stage
StatusAtShifted(pc) ==
    CASE pc = "parsing_set" -> "parsing"
      [] pc = "normalizing_set" -> "normalizing"
      [] pc = "enriching_set" -> "enriching"
      [] pc = "quality_check_set" -> "normalizing"
      [] pc = "forecasting_set" -> "forecasting"

StatusAt(pc) ==
    CASE pc = "parsing_set" -> "parsing"
      [] pc = "normalizing_set" -> "normalizing"
      [] pc = "enriching_set" -> "enriching"
      [] pc = "quality_check_set" -> "quality_check"
      [] pc = "forecasting_set" -> "forecasting"

WorkAfter(pc) ==
    CASE pc = "parsing_set" -> "parsing_work"
      [] pc = "normalizing_set" -> "normalizing_work"
      [] pc = "enriching_set" -> "enriching_fetch"
      [] pc = "quality_check_set" -> "quality_check_work"
      [] pc = "forecasting_set" -> "forecasting_load"

SetPcs == {"parsing_set", "normalizing_set", "enriching_set",
           "quality_check_set", "forecasting_set"}

\* Faulty variant: the stage helper does its work without calling _set_status
SetStatusSkipped(w) ==
    /\ run[w].pc \in SetPcs
    /\ run' = [run EXCEPT ![w].pc = WorkAfter(run[w].pc)]
    /\ UNCHANGED << settings, jobs, time_series, forecasts, weather_observations,
                    public_holidays, broker, fx, calls, fc >>
    /\ lastRead' = NoResponse

\* _set_status: job.status = status; await db.commit()
SetStatus(w) ==
    /\ run[w].pc \in SetPcs
    /\ LET r == Assign(run[w], "status", StatusAt(run[w].pc))
       IN /\ CommitTables(r)
          /\ run' = [run EXCEPT ![w] = [Flushed(r) EXCEPT !.pc = WorkAfter(run[w].pc)]]
    /\ UNCHANGED << settings, weather_observations, public_holidays, broker, fx,
                    calls, fc >>
    /\ lastRead' = NoResponse

Raise(w, exc) ==
    /\ run' = [run EXCEPT ![w].exc = exc, ![w].pc = "except"]
    /\ UNCHANGED << jobs, time_series, forecasts >>

\* Faulty variant: a job without a raw path is parsed from bytes kept in
\* memory
StageParsingInMemory(w) ==
    /\ run[w].pc = "parsing_work"
    /\ \/ Raise(w, "parsing failed")
       \/ LET r == [run[w] EXCEPT !.pend_series =
                      @ \cup {[job_id |-> run[w].job, stage |-> "parsed"]}]
          IN /\ CommitTables(r)
             /\ run' = [run EXCEPT ![w] = [Flushed(r) EXCEPT !.pc = "normalizing_set"]]
    /\ UNCHANGED << settings, weather_observations, public_holidays, broker, fx,
                    calls, fc >>
    /\ lastRead' = NoResponse

\* _stage_parsing lines 88-91
StageParsing(w) ==
    /\ run[w].pc = "parsing_work"
    /\ \/ /\ run[w].mem.gcs_raw_path = None
          /\ Raise(w, "RuntimeError: no gcs_raw_path")
       \/ /\ run[w].mem.gcs_raw_path # None
          /\ Raise(w, "parsing failed")
       \/ /\ run[w].mem.gcs_raw_path # None
          /\ LET r == [run[w] EXCEPT !.pend_series =
                         @ \cup {[job_id |-> run[w].job, stage |-> "parsed"]}]
             IN /\ CommitTables(r)
                /\ run' = [run EXCEPT ![w] = [Flushed(r) EXCEPT !.pc = "normalizing_set"]]
    /\ UNCHANGED << settings, weather_observations, public_holidays, broker, fx,
                    calls, fc >>
    /\ lastRead' = NoResponse

\* Faulty variant: the stage goes on without inserting the normalized rows
StageNormalizingUnsaved(w) ==
    /\ run[w].pc = "normalizing_work"
    /\ \/ Raise(w, "normalizing failed")
       \/ /\ CommitTables(run[w])
          /\ run' = [run EXCEPT ![w] =
                       [Flushed(run[w]) EXCEPT !.pc =
                           IF settings.weather_enrichment_enabled
                           THEN "enriching_set" ELSE "quality_check_set"]]
    /\ UNCHANGED << settings, weather_observations, public_holidays, broker, fx,
                    calls, fc >>
    /\ lastRead' = NoResponse

\* _stage_normalizing lines 97-99, and the test of line 58
StageNormalizing(w) ==
    /\ run[w].pc = "normalizing_work"
    /\ \/ Raise(w, "normalizing failed")
       \/ LET r == [run[w] EXCEPT !.pend_series =
                      @ \cup {[job_id |-> run[w].job, stage |-> "normalized"]}]
          IN /\ CommitTables(r)
             /\ run' = [run EXCEPT ![w] =
                          [Flushed(r) EXCEPT !.pc =
                              IF settings.weather_enrichment_enabled
                              THEN "enriching_set" ELSE "quality_check_set"]]
    /\ UNCHANGED << settings, weather_observations, public_holidays, broker, fx,
                    calls, fc >>
    /\ lastRead' = NoResponse

\* _stage_enriching: weather for sorted({forecast_year, forecast_year - 1}),
\* then the holidays of forecast_year
FetchPlan(forecast_year) ==
    << [kind |-> "weather", year |-> forecast_year - 1],
       [kind |-> "weather", year |-> forecast_year],
       [kind |-> "holidays", year |-> forecast_year] >>

EnrichCall(w) ==
    /\ run[w].pc = "enriching_fetch"
    /\ LET plan == FetchPlan(run[w].mem.forecast_year)
           n == run[w].attempted + 1
       IN /\ n <= Len(plan)
          /\ EnsureCachedBegin(w, plan[n].kind, plan[n].year)
          /\ run' = [run EXCEPT ![w].attempted = n]
    /\ UNCHANGED << settings, jobs, time_series, forecasts, weather_observations,
                    public_holidays, broker, calls, fc >>
    /\ lastRead' = NoResponse

EnrichStep(w) ==
    /\ run[w].pc = "enriching_fetch"
    /\ \/ ProviderFetch(w, PipelinePayloads(fx[w].kind, fx[w].year), 0)
       \/ UpsertChunk(w)
       \/ CacheCommit(w)
    /\ UNCHANGED << settings, jobs, time_series, forecasts, broker, run, calls, fc >>
    /\ lastRead' = NoResponse

\* Faulty variant: the failure of a fetch is not caught by the stage
EnrichUncaught(w) ==
    /\ run[w].pc = "enriching_fetch"
    /\ fx[w].phase \in {"returned", "raised"}
    /\ fx' = [fx EXCEPT ![w] = FxIdle]
    /\ run' = [run EXCEPT
                 ![w].exc = IF fx[w].phase = "raised" THEN "fetch failed" ELSE @,
                 ![w].pc = IF fx[w].phase = "raised" THEN "except"
                           ELSE IF run[w].attempted = 3 THEN "quality_check_set" ELSE @]
    /\ UNCHANGED << settings, jobs, time_series, forecasts, weather_observations,
                    public_holidays, broker, calls, fc >>
    /\ lastRead' = NoResponse

\* the return of a fetch, or its exception caught by except Exception
EnrichReturn(w) ==
    /\ run[w].pc = "enriching_fetch"
    /\ fx[w].phase \in {"returned", "raised"}
    /\ fx' = [fx EXCEPT ![w] = FxIdle]
    /\ run' = [run EXCEPT
                 ![w].caught = IF fx[w].phase = "raised"
                               THEN @ \cup {run[w].attempted} ELSE @,
                 ![w].pc = IF run[w].attempted = 3 THEN "quality_check_set" ELSE @]
    /\ UNCHANGED << settings, jobs, time_series, forecasts, weather_observations,
                    public_holidays, broker, calls, fc >>
    /\ lastRead' = NoResponse

\* generate_quality_report, as far as the pipeline looks at it: passed or not
generate_quality_report(file_name) ==
    IF file_name = "gappy.csv" THEN "not_passed" ELSE "passed"

\* Faulty variant: a report that did not pass ends the run
StageQualityCheckGated(w) ==
    /\ run[w].pc = "quality_check_work"
    /\ LET r == Assign(run[w], "quality_report",
                       generate_quality_report(run[w].mem.file_name))
       IN IF r.mem.quality_report = "not_passed"
          THEN /\ run' = [run EXCEPT ![w] = [r EXCEPT !.exc = "quality check failed",
                                                      !.pc = "except"]]
               /\ UNCHANGED << jobs, time_series, forecasts >>
          ELSE /\ CommitTables(r)
               /\ run' = [run EXCEPT ![w] = [Flushed(r) EXCEPT !.pc = "forecasting_set"]]
    /\ UNCHANGED << settings, weather_observations, public_holidays, broker, fx,
                    calls, fc >>
    /\ lastRead' = NoResponse

\* _stage_quality_check lines 119-121
StageQualityCheck(w) ==
    /\ run[w].pc = "quality_check_work"
    /\ \/ Raise(w, "quality check failed")
       \/ LET r == Assign(run[w], "quality_report",
                         generate_quality_report(run[w].mem.file_name))
          IN /\ CommitTables(r)
             /\ run' = [run EXCEPT ![w] = [Flushed(r) EXCEPT !.pc = "forecasting_set"]]
    /\ UNCHANGED << settings, weather_observations, public_holidays, broker, fx,
                    calls, fc >>
    /\ lastRead' = NoResponse

\* Faulty variant: the proxy is taken whenever the year is below the cache-hit
\* threshold, not only when it is entirely absent
LoadWeatherDfBelowThreshold(year) ==
    IF CacheHit("weather", CachedCount("weather", year))
    THEN Frame(WeatherFrame(CachedRows("weather", year)))
    ELSE IF CachedRows("weather", year - 1) # {}
         THEN Frame(WeatherFrame(CachedRows("weather", year - 1)))
         ELSE NoFrame

\* load_weather_df: the rows of the year, else those of the year before
load_weather_df(year) ==
    IF CachedRows("weather", year) # {}
    THEN Frame(WeatherFrame(CachedRows("weather", year)))
    ELSE IF CachedRows("weather", year - 1) # {}
         THEN Frame(WeatherFrame(CachedRows("weather", year - 1)))
         ELSE NoFrame

\* load_holidays
load_holidays(year) == Keys(CachedRows("holidays", year))

\* Faulty variant: the cache is read whatever the configuration says
LoadEnrichmentAlways(w) ==
    /\ run[w].pc = "forecasting_load"
    /\ run' = [run EXCEPT
                 ![w].weather_df = load_weather_df(run[w].mem.forecast_year),
                 ![w].holidays = load_holidays(run[w].mem.forecast_year),
                 ![w].pc = "forecasting_run"]
    /\ UNCHANGED << settings, jobs, time_series, forecasts, weather_observations,
                    public_holidays, broker, fx, calls, fc >>
    /\ lastRead' = NoResponse

\* _stage_forecasting lines 127-131
LoadEnrichment(w) ==
    /\ run[w].pc = "forecasting_load"
    /\ run' = [run EXCEPT
                 ![w].weather_df = IF settings.weather_enrichment_enabled
                                   THEN load_weather_df(run[w].mem.forecast_year)
                                   ELSE NoFrame,
                 ![w].holidays = IF settings.weather_enrichment_enabled
                                 THEN load_holidays(run[w].mem.forecast_year)
                                 ELSE {},
                 ![w].pc = "forecasting_run"]
    /\ UNCHANGED << settings, jobs, time_series, forecasts, weather_observations,
                    public_holidays, broker, fx, calls, fc >>
    /\ lastRead' = NoResponse

\* _bulk_insert_forecasts: on_conflict_do_nothing on (hour_ts, job_id)
ForecastRows(job_id, df_forecast) ==
    LET rows == [k \in 1..Len(df_forecast) |->
                   [key |-> << df_forecast[k].hour_ts, job_id >>,
                    yhat |-> df_forecast[k].yhat]]
    IN InsertOnConflictDoNothing({}, rows)

\* _stage_forecasting lines 133-134
StageForecastingRun(w) ==
    /\ run[w].pc = "forecasting_run"
    /\ \/ Raise(w, "forecast failed")
       \/ /\ run' = [run EXCEPT
                       ![w].pend_forecasts =
                           { r \in ForecastRows(run[w].job,
                                   ForecastFrame(run[w].mem.forecast_year,
                                                 run[w].weather_df)) :
                               r.key \notin Keys(forecasts) },
                       ![w].pc = "forecasting_upload"]
          /\ UNCHANGED << jobs, time_series, forecasts >>
    /\ UNCHANGED << settings, weather_observations, public_holidays, broker, fx,
                    calls, fc >>
    /\ lastRead' = NoResponse

\* _stage_forecasting lines 137-143: the CSV mirror and the stage's commit
StageForecastingUpload(w) ==
    /\ run[w].pc = "forecasting_upload"
    /\ \/ \* storage_client.upload_file raises something else than RuntimeError
          Raise(w, "upload failed")
       \/ \E r \in { Assign(run[w], "gcs_output_path", "gs://out"),  \* uploaded
                     run[w] } :                                      \* RuntimeError
            /\ CommitTables(r)
            /\ run' = [run EXCEPT ![w] = [Flushed(r) EXCEPT !.pc = "complete"]]
    /\ UNCHANGED << settings, weather_observations, public_holidays, broker, fx,
                    calls, fc >>
    /\ lastRead' = NoResponse

\* _run_pipeline lines 64-66
Complete(w) ==
    /\ run[w].pc = "complete"
    /\ LET r == Assign(Assign(run[w], "status", "complete"), "completed_at", "now")
       IN /\ CommitTables(r)
          /\ run' = [run EXCEPT ![w] = [RunIdle EXCEPT !.pc = "done", !.job = r.job]]
    /\ UNCHANGED << settings, weather_observations, public_holidays, broker, fx,
                    calls, fc >>
    /\ lastRead' = NoResponse

\* Faulty variant: the handler records the status but not the failure detail
ExceptNoDetail(w) ==
    /\ run[w].pc = "except"
    /\ LET r == Assign(Assign(run[w], "status", "failed"), "completed_at", "now")
       IN /\ CommitTables(r)
          /\ run' = [run EXCEPT ![w] = [RunIdle EXCEPT !.pc = "raised", !.job = r.job,
                                                       !.exc = r.exc]]
    /\ UNCHANGED << settings, weather_observations, public_holidays, broker, fx,
                    calls, fc >>
    /\ lastRead' = NoResponse

\* _run_pipeline lines 69-75
Except(w) ==
    /\ run[w].pc = "except"
    /\ LET r == Assign(Assign(Assign(run[w], "status", "failed"),
                              "error_message", run[w].exc), "completed_at", "now")
       IN /\ CommitTables(r)
          /\ run' = [run EXCEPT ![w] = [RunIdle EXCEPT !.pc = "raised", !.job = r.job,
                                                       !.exc = r.exc]]
    /\ UNCHANGED << settings, weather_observations, public_holidays, broker, fx,
                    calls, fc >>
    /\ lastRead' = NoResponse

-----------------------------------------------------------------------------
(* The stage-gated read endpoints: app/api/v1/endpoints/jobs.py *)

Endpoints == {"parsed", "normalized", "enrichment", "quality-report",
              "forecast", "forecast/download"}

\* The min_stage each endpoint passes to _require_stage
MinStage(endpoint) ==
    CASE endpoint = "parsed" -> "normalizing"
      [] endpoint = "normalized" -> "enriching"
      [] endpoint = "enrichment" -> "quality_check"
      [] endpoint = "quality-report" -> "quality_check"
      [] endpoint = "forecast" -> "complete"
      [] endpoint = "forecast/download" -> "complete"

\* Faulty variant: the gate lets a job through one stage early
RequireStageOffByOne(job, min_stage) ==
    IF job.status = "failed"
    THEN << "Job failed", job.error_message >>
    ELSE IF StageIndex(job.status) + 1 < StageIndex(min_stage)
         THEN << "not yet available", min_stage >>
         ELSE << "ok", None >>

\* _require_stage: the detail of the 409 it raises, or ok
RequireStage(job, min_stage) ==
    IF job.status = "failed"
    THEN << "Job failed", job.error_message >>
    ELSE IF StageIndex(job.status) < StageIndex(min_stage)
         THEN << "not yet available", min_stage >>
         ELSE << "ok", None >>

HasRows(j, stage) == [job_id |-> j, stage |-> stage] \in time_series

\* get_parsed, get_normalized, get_enrichment, get_quality_report,
\* get_forecast, download_forecast
Read(j, endpoint) ==
    /\ IF j \notin DOMAIN jobs
       THEN /\ lastRead' = Response(endpoint, j, 404, << "Job not found", None >>, None)
            /\ UNCHANGED jobs
       ELSE LET job == jobs[j]
                gate == RequireStage(job, MinStage(endpoint))
            IN IF gate[1] # "ok"
               THEN /\ lastRead' = Response(endpoint, j, 409, gate, job.status)
                    /\ UNCHANGED jobs
               ELSE IF endpoint \in {"enrichment", "quality-report"}
                       /\ ~(endpoint = "quality-report" /\ job.quality_report # None)
                       /\ ~HasRows(j, "normalized")
                    THEN /\ lastRead' = Response(endpoint, j, 409,
                                          << "No normalized data", None >>, job.status)
                         /\ UNCHANGED jobs
                    ELSE /\ lastRead' = Response(endpoint, j, 200, << "data", None >>,
                                                 job.status)
                         /\ jobs' = IF endpoint = "quality-report"
                                       /\ job.quality_report = None
                                    THEN [jobs EXCEPT ![j].quality_report =
                                            generate_quality_report(job.file_name)]
                                    ELSE jobs
    /\ UNCHANGED << settings, time_series, forecasts, weather_observations,
                    public_holidays, broker, run, fx, calls, fc >>

-----------------------------------------------------------------------------
(* Callers of ensure_cached, one after another on each session *)

CallEnsureCached(s) ==
    /\ Len(calls[s]) < MaxCalls
    /\ \E kind \in Kinds, year \in CacheYears :
         /\ EnsureCachedBegin(s, kind, year)
    /\ UNCHANGED << settings, jobs, time_series, forecasts, weather_observations,
                    public_holidays, broker, run, calls, fc >>
    /\ lastRead' = NoResponse

CallStep(s) ==
    /\ \/ ProviderFetch(s, Payloads(fx[s].kind, fx[s].year), s)
       \/ UpsertChunk(s)
       \/ CacheCommit(s)
    /\ UNCHANGED << settings, jobs, time_series, forecasts, broker, run, calls, fc >>
    /\ lastRead' = NoResponse

CallReturn(s) ==
    /\ fx[s].phase \in {"returned", "raised"}
    /\ calls' = [calls EXCEPT ![s] = Append(@,
                   [kind |-> fx[s].kind, year |-> fx[s].year,
                    fetched |-> fx[s].fetched,
                    countAfter |-> CachedCount(fx[s].kind, fx[s].year)])]
    /\ fx' = [fx EXCEPT ![s] = FxIdle]
    /\ UNCHANGED << settings, jobs, time_series, forecasts, weather_observations,
                    public_holidays, broker, run, fc >>
    /\ lastRead' = NoResponse

FcIdle == [forecast_year |-> 0, weather_df |-> NoFrame, done |-> FALSE, result |-> << >>]

InitTables ==
    /\ jobs = << >>
    /\ time_series = {}
    /\ forecasts = {}
    /\ broker = << >>
    /\ run = [w \in Sessions |-> RunIdle]
    /\ fx = [s \in Sessions |-> FxIdle]
    /\ calls = [s \in Sessions |-> << >>]
    /\ lastRead = NoResponse

InitCache ==
    /\ InitTables
    /\ settings = [weather_enrichment_enabled |-> TRUE]
    /\ weather_observations = {}
    /\ public_holidays = {}
    /\ fc = FcIdle

NextCache ==
    \E s \in Sessions :
        \/ CallEnsureCached(s)
        \/ CallStep(s)
        \/ CallReturn(s)

SpecCache == InitCache /\ [][NextCache]_vars

\* A cache filled by earlier jobs: the forecast year's weather and holidays
SeededWeather == {[key |-> h, val |-> 0] : h \in SeqRange(HoursOfYear(2025))}
SeededHolidays == {[key |-> << 2025, 3, 1 >>, val |-> 0]}

Init ==
    /\ InitTables
    /\ settings \in [weather_enrichment_enabled : BOOLEAN]
    /\ \/ weather_observations = {} /\ public_holidays = {}
       \/ weather_observations = SeededWeather /\ public_holidays = SeededHolidays
    /\ fc = FcIdle

Pipeline(w) ==
    \/ SetStatus(w)
    \/ StageParsing(w)
    \/ StageNormalizing(w)
    \/ EnrichCall(w)
    \/ EnrichStep(w)
    \/ EnrichReturn(w)
    \/ StageQualityCheck(w)
    \/ LoadEnrichment(w)
    \/ StageForecastingRun(w)
    \/ StageForecastingUpload(w)
    \/ Complete(w)
    \/ Except(w)

Next ==
    \/ \E filename \in FileNames, empty \in BOOLEAN, forecast_year \in UploadYears :
         upload_file(filename, empty, forecast_year)
    \/ \E w \in Sessions, j \in JobIds : StartRun(w, j)
    \/ \E w \in Sessions : Pipeline(w)
    \/ \E j \in JobIds, endpoint \in Endpoints : Read(j, endpoint)

Spec == Init /\ [][Next]_vars

\* The steps of a run that the code bounds: database statements and commits,
\* and the provider calls, which carry httpx timeouts (weather.py line 66,
\* holidays.py line 42). The step of run_forecast is not among them: m.fit
\* and m.predict are called without a timeout, and the task has no time limit
\* (celery_app.py), so nothing makes that step return.
SpecLive ==
    /\ Spec
    /\ \A w \in Sessions :
          WF_vars(\/ SetStatus(w)
                  \/ StageParsing(w)
                  \/ StageNormalizing(w)
                  \/ EnrichCall(w)
                  \/ EnrichStep(w)
                  \/ EnrichReturn(w)
                  \/ StageQualityCheck(w)
                  \/ LoadEnrichment(w)
                  \/ StageForecastingUpload(w)
                  \/ Complete(w)
                  \/ Except(w))

\* At-least-once delivery, for the jobs of a deployment whose cache earlier
\* jobs have filled
InitRedeliver ==
    /\ Init
    /\ weather_observations = SeededWeather

NextRedeliver ==
    \/ Next
    \/ \E j \in JobIds : Redeliver(j)

SpecRedeliver == InitRedeliver /\ [][NextRedeliver]_vars

InitForecastSpec ==
    /\ InitTables
    /\ settings = [weather_enrichment_enabled |-> TRUE]
    /\ weather_observations = {}
    /\ public_holidays = {}
    /\ InitForecast

SpecForecast == InitForecastSpec /\ [][RunForecast]_vars

-----------------------------------------------------------------------------
(* Claims about the job state machine, checked under Spec *)

Terminal == {"complete", "failed"}

ForecastsOf(j) == {r \in forecasts : r.key[2] = j}

AtOrPast(status, stage) == StageIndex(status) >= StageIndex(stage)

\* C1: the status of a job only moves forward through queued, parsing,
\* normalizing, enriching, quality_check, forecasting, complete, one stage at
\* a time (enriching is passed over only when enrichment is disabled), and
\* failed is entered only from a status that is not terminal.
C1_StatusMovesForward ==
    [][ \A j \in DOMAIN jobs :
          LET a == jobs[j].status
              b == jobs'[j].status
          IN a # b =>
               \/ b = "failed" /\ a \notin Terminal
               \/ /\ a # "failed" /\ b # "failed"
                  /\ \/ StageIndex(b) = StageIndex(a) + 1
                     \/ /\ ~settings.weather_enrichment_enabled
                        /\ a = "normalizing" /\ b = "quality_check" ]_vars

\* A job went through every stage, enriching included, to complete
C1_Witness ==
    \E j \in DOMAIN jobs :
        /\ jobs[j].status = "complete"
        /\ settings.weather_enrichment_enabled
        /\ ForecastsOf(j) # {}

\* The stage a failure detail comes from
FailedIn(exc) ==
    CASE exc \in {"RuntimeError: no gcs_raw_path", "parsing failed"} -> "parsing"
      [] exc = "normalizing failed" -> "normalizing"
      [] exc = "quality check failed" -> "quality_check"
      [] exc \in {"forecast failed", "upload failed"} -> "forecasting"
      [] OTHER -> "enriching"

\* C2: a job whose run raised in a stage ends failed with an error_message
\* and a completion time, the exception reaches the dispatcher, and no output
\* of a later stage is persisted for the job.
C2_FailedRunEndsFailed ==
    \A w \in Sessions :
        run[w].pc = "raised" =>
            LET j == run[w].job
                stage == FailedIn(run[w].exc)
            IN /\ run[w].exc # None
               /\ jobs[j].status = "failed"
               /\ jobs[j].error_message = run[w].exc
               /\ jobs[j].completed_at # None
               /\ stage = "parsing" => ~HasRows(j, "normalized")
               /\ stage \in {"parsing", "normalizing", "enriching"}
                     => jobs[j].quality_report = None
               /\ stage # "forecasting" => ForecastsOf(j) = {}

\* A run raised in the normalizing stage, after the parsed rows were stored
C2_Witness ==
    \E w \in Sessions :
        /\ run[w].pc = "raised"
        /\ run[w].exc = "normalizing failed"
        /\ HasRows(run[w].job, "parsed")

\* C3: the status of a stage is committed before the work of that stage: the
\* parsed rows, normalized rows, quality report and forecast rows of a job
\* are never persisted while its committed status is earlier than the stage
\* that produces them, and each is first persisted by a step that starts with
\* the status at (for the quality report: at or past) that stage.
C3_StatusBeforeWork ==
    /\ [](\A j \in DOMAIN jobs :
            jobs[j].status # "failed" =>
                /\ HasRows(j, "parsed") => AtOrPast(jobs[j].status, "parsing")
                /\ HasRows(j, "normalized") => AtOrPast(jobs[j].status, "normalizing")
                /\ jobs[j].quality_report # None
                      => AtOrPast(jobs[j].status, "quality_check")
                /\ ForecastsOf(j) # {} => AtOrPast(jobs[j].status, "forecasting"))
    /\ [][ \A j \in DOMAIN jobs :
             /\ (~HasRows(j, "parsed") /\ HasRows(j, "parsed")')
                   => jobs[j].status = "parsing"
             /\ (~HasRows(j, "normalized") /\ HasRows(j, "normalized")')
                   => jobs[j].status = "normalizing"
             /\ (jobs[j].quality_report = None /\ jobs'[j].quality_report # None)
                   => AtOrPast(jobs[j].status, "quality_check")
             /\ (ForecastsOf(j) = {} /\ ForecastsOf(j)' # {})
                   => jobs[j].status = "forecasting" ]_vars

\* The forecast rows of a job are persisted and its status is forecasting
C3_Witness ==
    \E j \in DOMAIN jobs :
        /\ jobs[j].status = "forecasting"
        /\ ForecastsOf(j) # {}
        /\ HasRows(j, "parsed") /\ HasRows(j, "normalized")
        /\ jobs[j].quality_report # None

\* C4: a read of a stage-specific dataset is served only when the job is not
\* failed and its status is at or past the minimum stage of the dataset;
\* otherwise it is refused with 409, and for a failed job the 409 carries the
\* stored error_message, for every dataset.
C4_ReadGate ==
    (lastRead.endpoint \in Endpoints /\ lastRead.job \in DOMAIN jobs) =>
        LET job == jobs[lastRead.job]
            min_stage == MinStage(lastRead.endpoint)
        IN /\ lastRead.code \in {200, 409}
           /\ lastRead.code = 200
                 => job.status # "failed" /\ AtOrPast(job.status, min_stage)
           /\ (job.status # "failed" /\ ~AtOrPast(job.status, min_stage))
                 => lastRead.code = 409
           /\ job.status = "failed"
                 => /\ lastRead.code = 409
                    /\ job.error_message # None
                    /\ lastRead.detail = << "Job failed", job.error_message >>

\* The parsed rows are served to a reader while the job is normalizing
C4_Witness ==
    /\ lastRead.endpoint = "parsed"
    /\ lastRead.code = 200
    /\ lastRead.job \in DOMAIN jobs
    /\ jobs[lastRead.job].status = "normalizing"

\* C5: once the status of a job is complete or failed it never changes
\* again, also when process_job is delivered more than once for the job.
C5_TerminalAbsorbing ==
    [][ \A j \in DOMAIN jobs :
          jobs[j].status \in Terminal => jobs'[j].status = jobs[j].status ]_vars

\* C8: a failure of an enrichment fetch never fails the job: a run in the
\* enriching stage never enters the exception handler, it leaves the stage
\* only for quality_check, and only after all three fetches were attempted.
C8_FetchFailureNotFatal ==
    [][ \A w \in Sessions :
          run[w].pc = "enriching_fetch" =>
              /\ run'[w].pc \in {"enriching_fetch", "quality_check_set"}
              /\ run'[w].pc = "quality_check_set"
                    => run[w].attempted = Len(FetchPlan(run[w].mem.forecast_year))
              /\ jobs'[run[w].job].status = "enriching" ]_vars

\* All three fetches of a run failed and the job is in quality_check
C8_Witness ==
    \E w \in Sessions :
        /\ run[w].pc = "quality_check_work"
        /\ run[w].caught = {1, 2, 3}
        /\ jobs[run[w].job].status = "quality_check"

\* C9: with enrichment disabled the status is never enriching, no provider
\* is called, the cache is neither written nor read (the forecast gets no
\* weather and no holidays), and quality_check follows normalizing directly.
C9_EnrichmentDisabled ==
    /\ [](~settings.weather_enrichment_enabled =>
            /\ \A j \in DOMAIN jobs : jobs[j].status # "enriching"
            /\ \A w \in Sessions :
                  /\ fx[w] = FxIdle
                  /\ run[w].attempted = 0
                  /\ run[w].weather_df = NoFrame
                  /\ run[w].holidays = {})
    /\ [][ ~settings.weather_enrichment_enabled =>
             /\ weather_observations' = weather_observations
             /\ public_holidays' = public_holidays
             /\ \A j \in DOMAIN jobs :
                   (jobs[j].status = "normalizing" /\ jobs'[j].status # "normalizing")
                       => jobs'[j].status \in {"quality_check", "failed"} ]_vars

\* Enrichment is disabled, the cache holds rows of the forecast year, and a
\* run has loaded its (absent) enrichment data and is about to forecast
C9_Witness ==
    /\ ~settings.weather_enrichment_enabled
    /\ weather_observations # {}
    /\ public_holidays # {}
    /\ \E w \in Sessions : run[w].pc = "forecasting_run"

C22_RejectedUploadNoEffect ==
    /\ [](\A j \in DOMAIN jobs : Extension(jobs[j].file_name) \in AllowedExtensions)
    /\ [][(lastRead'.endpoint = "upload" /\ lastRead'.code = 422) =>
              UNCHANGED << jobs, broker, run, time_series, forecasts >>]_vars

\* An upload was rejected while no job exists
C22_Witness ==
    /\ lastRead.endpoint = "upload"
    /\ lastRead.code = 422
    /\ jobs = << >>
    /\ broker = << >>

\* C23: every started pipeline run ends, with the job complete or failed.
C23_EveryRunTerminates ==
    \A w \in Sessions :
        Busy(w) ~> (/\ ~Busy(w)
                    /\ run[w].job \in DOMAIN jobs
                    /\ jobs[run[w].job].status \in Terminal)

\* The parsed rows, the normalized rows and every forecast row of a job are
\* persisted
ParsedCommitted(j) == HasRows(j, "parsed")

NormalizedCommitted(j) == HasRows(j, "normalized")

ForecastCommitted(j) ==
    \A h \in SeqRange(HoursOfYear(jobs[j].forecast_year)) :
        \E r \in forecasts : r.key = << h, j >>

\* C26 (as stated): a status at or past normalizing implies the parsed rows
\* are persisted, at or past enriching the normalized rows, at or past
\* quality_check the quality report, and complete every forecast row.
C26_GateImpliesCommitted ==
    \A j \in DOMAIN jobs :
        /\ AtOrPast(jobs[j].status, "normalizing") => ParsedCommitted(j)
        /\ AtOrPast(jobs[j].status, "enriching") => NormalizedCommitted(j)
        /\ AtOrPast(jobs[j].status, "quality_check") => jobs[j].quality_report # None
        /\ jobs[j].status = "complete" => ForecastCommitted(j)

\* C26 (amended): as stated, except that the quality report is persisted
\* from the status forecasting on; a read of the quality report that passes
\* the gate at quality_check finds the normalized rows it is computed from.
C26_StageOutputCommitted ==
    /\ [](\A j \in DOMAIN jobs :
            /\ AtOrPast(jobs[j].status, "normalizing") => ParsedCommitted(j)
            /\ AtOrPast(jobs[j].status, "enriching") => NormalizedCommitted(j)
            /\ AtOrPast(jobs[j].status, "forecasting") => jobs[j].quality_report # None
            /\ jobs[j].status = "complete" => ForecastCommitted(j))
    /\ [][(lastRead'.endpoint = "quality-report" /\ lastRead'.code = 200) =>
             /\ NormalizedCommitted(lastRead'.job) \/ jobs[lastRead'.job].quality_report # None
             /\ jobs'[lastRead'.job].quality_report # None]_vars

\* A read of the quality report passed the gate while the run had set the
\* status quality_check and not yet stored its report
C26_Witness ==
    /\ lastRead.endpoint = "quality-report"
    /\ lastRead.code = 200
    /\ lastRead.seen = "quality_check"
    /\ \E w \in Sessions : run[w].pc = "quality_check_work" /\ run[w].job = lastRead.job

\* C27: in every state of a job, completed_at is set exactly when the status
\* is complete or failed, and error_message is set exactly when the status
\* is failed.
C27_CompletionFieldsMatchStatus ==
    \A j \in DOMAIN jobs :
        /\ jobs[j].completed_at # None <=> jobs[j].status \in Terminal
        /\ jobs[j].error_message # None <=> jobs[j].status = "failed"

\* C29: the quality report never gates the pipeline: the step that stores a
\* report, passed or not, moves the run on to forecasting; a run that fails
\* in the quality check stage fails before it has a report, so never because
\* of what the report says.
C29_ReportNeverGates ==
    /\ [](\A w \in Sessions :
            (run[w].pc = "except" /\ FailedIn(run[w].exc) = "quality_check")
                => run[w].mem.quality_report = None)
    /\ [][\A w \in Sessions :
            (run[w].pc = "quality_check_work" /\ run'[w].pc # "quality_check_work"
                /\ run'[w].pc # "except")
              => /\ run'[w].pc = "forecasting_set"
                 /\ jobs'[run[w].job].quality_report # None
                 /\ jobs'[run[w].job].status = "quality_check"]_vars

\* A job whose report did not pass is complete, with its forecast
C29_Witness ==
    \E j \in DOMAIN jobs :
        /\ jobs[j].quality_report = "not_passed"
        /\ jobs[j].status = "complete"
        /\ ForecastCommitted(j)

\* C30: a job that ends failed in the forecasting stage has no forecast row
\* persisted.
C30_FailedStageLeavesNoOutput ==
    \A w \in Sessions :
        (run[w].pc = "raised" /\ FailedIn(run[w].exc) = "forecasting")
            => ForecastsOf(run[w].job) = {}

-----------------------------------------------------------------------------
(* Claims about the enrichment cache, checked under SpecCache *)

SameKey(a, b) == a.kind = b.kind /\ a.year = b.year

UniqueKeys(table) == \A a, b \in table : a.key = b.key => a = b

\* C7: under any interleaving of ensure_cached calls the cache holds at most
\* one row per (hour, region) and per (date, region), and no committed row is
\* ever removed or replaced by a later fetch.
C7_InsertIfAbsent ==
    /\ [](UniqueKeys(weather_observations) /\ UniqueKeys(public_holidays))
    /\ [][ /\ weather_observations \subseteq weather_observations'
           /\ public_holidays \subseteq public_holidays' ]_vars

\* Two sessions fetched the same key concurrently and the rows of one of them
\* met the committed rows of the other.
C7_Witness ==
    \E s \in Sessions :
        /\ fx[s].phase = "returned"
        /\ fx[s].kind = "weather"
        /\ \E k \in 1..Len(fx[s].rows) :
              /\ fx[s].rows[k] \notin weather_observations
              /\ fx[s].rows[k].key \in Keys(weather_observations)
        /\ \E k \in 1..Len(fx[s].rows) : fx[s].rows[k] \in weather_observations

-----------------------------------------------------------------------------
(* The load profile parser: app/services/parser.py *)

\* The rows of a file the model draws
MaxRows == 3

\* pd.NaT, kept apart from every instant; instants count half minutes
NaT == -1

\* Column names and hints are sequences of characters, so that
\* "hint in col_lower" is the substring test it is in the code
TIMESTAMP_HINTS ==
    << << "t", "i", "m", "e" >>,
       << "d", "a", "t", "e" >>,
       << "t", "s" >>,
       << "d", "a", "t", "e", "t", "i", "m", "e" >>,
       << "z", "e", "i", "t", "s", "t", "e", "m", "p", "e", "l" >>,
       << "d", "a", "t", "u", "m" >> >>

VALUE_HINTS ==
    << << "k", "w" >>,
       << "m", "w" >>,
       << "p", "o", "w", "e", "r" >>,
       << "l", "o", "a", "d" >>,
       << "v", "a", "l", "u", "e" >>,
       << "l", "e", "i", "s", "t", "u", "n", "g" >>,
       << "v", "e", "r", "b", "r", "a", "u", "c", "h" >>,
       << "e", "n", "e", "r", "g", "i", "e" >> >>

ENERGY_HINTS ==
    << << "k", "w", "h" >>,
       << "m", "w", "h" >> >>

\* str.lower(), for the capitals the column names of the model hold
LowerChar(c) ==
    CASE c = "K" -> "k"
      [] c = "M" -> "m"
      [] c = "W" -> "w"
      [] c = "H" -> "h"
      [] OTHER -> c

Lower(name) == [i \in 1..Len(name) |-> LowerChar(name[i])]

\* hint in col_lower
Contains(text, hint) ==
    \E i \in 1..(Len(text) - Len(hint) + 1) :
        SubSeq(text, i, i + Len(hint) - 1) = hint

ContainsAny(name, hints) ==
    \E h \in 1..Len(hints) : Contains(Lower(name), hints[h])

\* No column: None
NoColumn == << >>

\* Faulty variant: the last column that matches wins
DetectColumnLast(columns, hints) ==
    LET hits == {i \in 1..Len(columns) : ContainsAny(columns[i], hints)}
    IN IF hits = {} THEN NoColumn
       ELSE columns[CHOOSE i \in hits : \A o \in hits : o <= i]

\* _detect_column: the first column whose lowercased name contains a hint
DetectColumn(columns, hints) ==
    LET hits == {i \in 1..Len(columns) : ContainsAny(columns[i], hints)}
    IN IF hits = {} THEN NoColumn
       ELSE columns[CHOOSE i \in hits : \A o \in hits : i <= o]

\* sort_values("ts") on rows without NaT: ascending, equal instants in the
\* order of the file
RECURSIVE SortRowsByTs(_)
SortRowsByTs(rows) ==
    IF rows = << >> THEN << >>
    ELSE LET m == CHOOSE i \in 1..Len(rows) :
                    /\ \A o \in 1..Len(rows) : rows[i].ts <= rows[o].ts
                    /\ \A o \in 1..(i - 1) : rows[o].ts # rows[i].ts
             rest == [k \in 1..(Len(rows) - 1) |->
                         IF k < m THEN rows[k] ELSE rows[k + 1]]
         IN << rows[m] >> \o SortRowsByTs(rest)

RECURSIVE SortInts(_)
SortInts(xs) ==
    IF xs = << >> THEN << >>
    ELSE LET m == CHOOSE i \in 1..Len(xs) : \A o \in 1..Len(xs) : xs[i] <= xs[o]
             rest == [k \in 1..(Len(xs) - 1) |-> IF k < m THEN xs[k] ELSE xs[k + 1]]
         IN << xs[m] >> \o SortInts(rest)

\* ts_series.sort_values().diff().dropna(), sorted
SortedDeltas(tss) ==
    LET o == SortInts(tss)
    IN SortInts([k \in 1..(Len(o) - 1) |-> o[k + 1] - o[k]])

\* Twice the median of a sorted non-empty sequence (the mean of the two
\* middle elements when their number is even)
TwiceMedian(sorted) ==
    LET n == Len(sorted)
    IN IF n % 2 = 1 THEN 2 * sorted[(n + 1) \div 2]
       ELSE sorted[n \div 2] + sorted[(n \div 2) + 1]

\* _detect_interval_minutes, in quarter minutes: 60.0 without any gap, else
\* max(median gap in minutes, 1.0)
DetectIntervalQuarterMinutes(tss) ==
    LET deltas == SortedDeltas(tss)
    IN IF deltas = << >> THEN 240
       ELSE IF TwiceMedian(deltas) > 4 THEN TwiceMedian(deltas) ELSE 4

\* A value as a fraction; NaN stays NaN under every operation
Fraction(num, den) == [num |-> num, den |-> den]
NaNValue == Fraction(NaN, 1)

\* result["value_kw"] * factor / hours_per_interval
ToPower(v, factor, quarter_minutes) ==
    IF v = NaN THEN NaNValue ELSE Fraction(v * factor * 240, quarter_minutes)

ParseError(message) == [ok |-> FALSE, error |-> message, value_col |-> NoColumn,
                        rows |-> << >>]

\* parse_load_profile, from the frame _parse_csv or _parse_excel returns
parse_load_profile(file) ==
    IF file.rows = << >> THEN ParseError("Parsed file is empty")
    ELSE
    LET cols == file.cols
        detected == DetectColumn(cols, TIMESTAMP_HINTS)
        ts_col == IF detected = NoColumn THEN cols[1] ELSE detected
        remaining == SelectSeq(cols, LAMBDA c : c # ts_col)
        hinted == DetectColumn(remaining, VALUE_HINTS)
        value_col == IF hinted # NoColumn THEN hinted
                     ELSE IF Len(remaining) = 1 THEN remaining[1] ELSE NoColumn
        kept == SortRowsByTs(SelectSeq(file.rows, LAMBDA r : r.ts # NaT))
        is_energy == ContainsAny(value_col, ENERGY_HINTS)
        interval == DetectIntervalQuarterMinutes([k \in 1..Len(kept) |-> kept[k].ts])
        factor == IF Contains(Lower(value_col), << "m", "w", "h" >>) THEN 1000 ELSE 1
    IN IF value_col = NoColumn THEN ParseError("Cannot detect value column")
       ELSE IF kept = << >> THEN ParseError("Could not parse any timestamps")
       ELSE [ok |-> TRUE, error |-> None, value_col |-> value_col,
             rows |-> [k \in 1..Len(kept) |->
                         [ts |-> kept[k].ts,
                          value_kw |-> IF is_energy
                                       THEN ToPower(kept[k].v, factor, interval)
                                       ELSE IF kept[k].v = NaN THEN NaNValue
                                            ELSE Fraction(kept[k].v, 1)]]]

\* The files of the model. The first column holds the timestamps (an instant
\* in half minutes, or text that is no timestamp), every other column the
\* same numbers (hundredths of a unit, or text that is no number).
TsColumnNames == { << "t", "s" >>, << "n", "o" >> }

ValueColumnNames == { << "k", "W" >>, << "k", "W", "h" >>, << "M", "W", "h" >>,
                      << "a" >>, << "b" >> }

Instants == {0, 1, 30}

Cells == [ts : Instants \cup {NaT}, v : {NaN, 25, 50}]

RowsUpTo(n) == UNION {[1..k -> Cells] : k \in 0..n}

ColumnLists ==
    { << t >> \o vs : t \in TsColumnNames,
                      vs \in UNION {[1..k -> ValueColumnNames] : k \in 0..2} }

\* Every column list with one row, and every sequence of rows under one
\* value column of each unit
Files ==
    { [cols |-> c, rows |-> << [ts |-> 0, v |-> 25] >>] : c \in ColumnLists }
    \cup { [cols |-> << << "t", "s" >>, n >>, rows |-> r] :
             n \in { << "k", "W" >>, << "k", "W", "h" >>, << "M", "W", "h" >> },
             r \in RowsUpTo(MaxRows) }

InitParse ==
    /\ InitTables
    /\ settings = [weather_enrichment_enabled |-> TRUE]
    /\ weather_observations = {}
    /\ public_holidays = {}
    /\ \E f \in Files : fc = [file |-> f, done |-> FALSE, out |-> ParseError(None)]

\* _stage_parsing line 89
ParseFile ==
    /\ ~fc.done
    /\ fc' = [fc EXCEPT !.done = TRUE, !.out = parse_load_profile(fc.file)]
    /\ UNCHANGED << settings, jobs, time_series, forecasts, weather_observations,
                    public_holidays, broker, run, fx, calls >>
    /\ lastRead' = NoResponse

SpecParse == InitParse /\ [][ParseFile]_vars

-----------------------------------------------------------------------------
(* The normalizer: app/services/normalizer.py *)

\* The hours of wall-clock time the series of the model span, and the
\* instants of an hour at which a sample can be taken
SeriesHours == 6
TicksPerHour == 2

\* The hour of wall-clock time that does not exist in the time zone (the
\* start of daylight saving time)
GapHour == 2

RECURSIVE GCD(_, _)
GCD(a, b) == IF b = 0 THEN a ELSE GCD(b, a % b)

Reduced(f) ==
    IF f.num = 0 THEN Fraction(0, 1)
    ELSE LET g == GCD(f.num, f.den) IN Fraction(f.num \div g, f.den \div g)

Plus(a, b) == Reduced(Fraction(a.num * b.den + b.num * a.den, a.den * b.den))

RECURSIVE Total(_)
Total(vals) == IF vals = << >> THEN Fraction(0, 1) ELSE Plus(Head(vals), Total(Tail(vals)))

\* mean(): the mean of the values that are not NaN, NaN without any
Mean(vals) ==
    LET known == SelectSeq(vals, LAMBDA v : v # NaNValue)
    IN IF known = << >> THEN NaNValue
       ELSE Reduced(Fraction(Total(known).num, Total(known).den * Len(known)))

\* tz_localize(tz, nonexistent="shift_forward"): wall-clock time to instant
Localize(t) ==
    IF t < GapHour * TicksPerHour THEN t
    ELSE IF t < (GapHour + 1) * TicksPerHour THEN GapHour * TicksPerHour
    ELSE t - TicksPerHour

\* The instants of the samples: localized when naive, converted (the instant
\* is kept) when aware
InstantOf(df, k) == IF df.tz_aware THEN df.rows[k].ts ELSE Localize(df.rows[k].ts)

HourOf(instant) == instant \div TicksPerHour

\* series.resample("1h").mean(): hour -> mean, for every hour from the first
\* sample's to the last sample's
Resample1h(df) ==
    LET hours == {HourOf(InstantOf(df, k)) : k \in 1..Len(df.rows)}
        first == CHOOSE h \in hours : \A o \in hours : h <= o
        last == CHOOSE h \in hours : \A o \in hours : o <= h
        sel(h) == SelectSeq([k \in 1..Len(df.rows) |->
                                [hour |-> HourOf(InstantOf(df, k)),
                                 v |-> df.rows[k].value_kw]],
                            LAMBDA r : r.hour = h)
    IN [i \in 1..(last - first + 1) |->
          [ts |-> (first + i - 1) * TicksPerHour,
           value_kw |-> Mean([k \in 1..Len(sel(first + i - 1)) |->
                                 sel(first + i - 1)[k].v])]]

\* Faulty variant: hours without a sample are left out of the result
NormalizeGroupBy(df) ==
    [tz_aware |-> TRUE,
     rows |-> SelectSeq(Resample1h(df), LAMBDA r : r.value_kw # NaNValue)]

\* hourly.ffill(limit=2)
FFill2(hourly) ==
    [i \in 1..Len(hourly) |->
       [ts |-> hourly[i].ts,
        value_kw |->
           IF hourly[i].value_kw # NaNValue THEN hourly[i].value_kw
           ELSE IF i > 1 /\ hourly[i - 1].value_kw # NaNValue
                THEN hourly[i - 1].value_kw
           ELSE IF i > 2 /\ hourly[i - 2].value_kw # NaNValue
                THEN hourly[i - 2].value_kw
           ELSE NaNValue]]

\* normalize_to_hourly
normalize_to_hourly(df) ==
    [tz_aware |-> TRUE, rows |-> FFill2(Resample1h(df))]

\* The samples of one hour of the model's series: none, one, two with
\* different values, or one without a value ("null")
SamplesOf(h, pattern) ==
    CASE pattern = "none" -> << >>
      [] pattern = "one" -> << [ts |-> h * TicksPerHour, value_kw |-> Fraction(12, 1)] >>
      [] pattern = "two" -> << [ts |-> h * TicksPerHour, value_kw |-> Fraction(12, 1)],
                               [ts |-> h * TicksPerHour + 1,
                                value_kw |-> Fraction(25, 1)] >>
      [] pattern = "null" -> << [ts |-> h * TicksPerHour, value_kw |-> NaNValue] >>

RECURSIVE SeriesOf(_, _)
SeriesOf(patterns, h) ==
    IF h > Len(patterns) THEN << >>
    ELSE SamplesOf(h - 1, patterns[h]) \o SeriesOf(patterns, h + 1)

\* The parsed series of the model: sorted, not empty, naive or aware
ParsedSeries ==
    { [tz_aware |-> a, rows |-> SeriesOf(ps, 1)] :
        a \in BOOLEAN,
        ps \in {q \in [1..SeriesHours -> {"none", "one", "two", "null"}] :
                    \E h \in 1..SeriesHours : q[h] # "none"} }

NoSeries == [tz_aware |-> TRUE, rows |-> << >>]

InitNormalize ==
    /\ InitTables
    /\ settings = [weather_enrichment_enabled |-> TRUE]
    /\ weather_observations = {}
    /\ public_holidays = {}
    /\ \E df \in ParsedSeries :
         fc = [df |-> df, passes |-> 0, once |-> NoSeries, twice |-> NoSeries]

\* _stage_normalizing line 97
NormalizeOnce ==
    /\ fc.passes = 0
    /\ fc' = [fc EXCEPT !.passes = 1, !.once = normalize_to_hourly(fc.df)]
    /\ UNCHANGED << settings, jobs, time_series, forecasts, weather_observations,
                    public_holidays, broker, run, fx, calls >>
    /\ lastRead' = NoResponse

\* normalize_to_hourly applied to what it returned
NormalizeAgain ==
    /\ fc.passes = 1
    /\ fc' = [fc EXCEPT !.passes = 2, !.twice = normalize_to_hourly(fc.once)]
    /\ UNCHANGED << settings, jobs, time_series, forecasts, weather_observations,
                    public_holidays, broker, run, fx, calls >>
    /\ lastRead' = NoResponse

NextNormalize == NormalizeOnce \/ NormalizeAgain

SpecNormalize == InitNormalize /\ [][NextNormalize]_vars

-----------------------------------------------------------------------------
(* Claims about the normalizer, checked under SpecNormalize *)

C14_Idempotent ==
    fc.passes = 2 => fc.twice = fc.once

\* The hours i..j of the resampled series are a maximal run of hours without
\* a value that follows an hour with a value
MissingRun(hourly, i, j) ==
    /\ 1 < i /\ i <= j /\ j <= Len(hourly)
    /\ hourly[i - 1].value_kw # NaNValue
    /\ \A k \in i..j : hourly[k].value_kw = NaNValue
    /\ j < Len(hourly) => hourly[j + 1].value_kw # NaNValue

\* C15: a gap of 1 or 2 consecutive missing hours is filled with the last
\* known value, and every hour of a gap of 3 or more stays null.
C15_ShortGapsFilledLongGapsNull ==
    fc.passes >= 1 =>
        LET hourly == Resample1h(fc.df)
            out == fc.once.rows
        IN \A i, j \in 1..Len(hourly) :
             MissingRun(hourly, i, j) =>
                 \A k \in i..j :
                     out[k].value_kw = IF j - i + 1 <= 2 THEN hourly[i - 1].value_kw
                                       ELSE NaNValue

-----------------------------------------------------------------------------
(* The quality report: app/services/quality.py *)

\* The longest series of the model, in hours, and the most hours of it that
\* are null or have no row
MaxSpan == 20
MaxHoles == 2

\* The longest series of the model in which flat periods are looked for
FlatHours == 5

\* round(x, digits) of Python for x = num / den >= 0, in units of 10^-digits:
\* the nearest integer, the even one of two that are equally near
RoundHalfEven(num, den) ==
    LET q == num \div den
        r == num % den
    IN IF 2 * r < den THEN q
       ELSE IF 2 * r > den THEN q + 1
       ELSE IF q % 2 = 0 THEN q ELSE q + 1

\* round(float(x), 3): thousandths; NaN stays NaN
Round3(f) ==
    IF f = NaNValue THEN NaNValue
    ELSE Fraction(RoundHalfEven(f.num * 1000, f.den), 1000)

FractionLess(a, b) == a.num * b.den < b.num * a.den

\* clean.min() and clean.max(): NaN of an empty series
MinOf(clean) ==
    IF clean = << >> THEN NaNValue
    ELSE clean[CHOOSE i \in 1..Len(clean) :
                  \A k \in 1..Len(clean) : ~FractionLess(clean[k], clean[i])]

MaxOf(clean) ==
    IF clean = << >> THEN NaNValue
    ELSE clean[CHOOSE i \in 1..Len(clean) :
                  \A k \in 1..Len(clean) : ~FractionLess(clean[i], clean[k])]

\* A statistic of the report: None, or a number
NoStat == << >>
Stat(v) == << v >>

\* Faulty variant: the statistic is computed whether or not a value is left
Unguarded(clean, v) == Stat(Round3(v))

\* round(float(...), 3) if not clean.empty else None
Guarded(clean, v) == IF clean # << >> THEN Stat(Round3(v)) ELSE NoStat

\* Faulty variant: a coverage of exactly 95.0 does not pass
PassedAbove(coverage_percent) == coverage_percent > 9500

\* passed = coverage_percent >= 95.0, the coverage in hundredths of a percent
Passed(coverage_percent) == coverage_percent >= 9500

\* _run_length_encoding: the runs of equal consecutive values, in order
RECURSIVE RunLengthEncoding(_)
RunLengthEncoding(series) ==
    IF series = << >> THEN << >>
    ELSE LET rest == RunLengthEncoding(Tail(series))
         IN IF rest # << >> /\ Head(rest).val = Head(series)
            THEN << [val |-> Head(series), length |-> Head(rest).length + 1] >>
                 \o Tail(rest)
            ELSE << [val |-> Head(series), length |-> 1] >> \o rest

\* generate_quality_report on a frame of rows [ts, value_kw]; the keys of
\* the report that depend on the quantiles of the values are left out
QualityReport(df) ==
    IF df.rows = << >>
    THEN [total_records |-> 0, passed |-> FALSE, error |-> "No data"]
    ELSE LET n == Len(df.rows)
             tss == {df.rows[k].ts : k \in 1..n}
             ts_min == CHOOSE t \in tss : \A o \in tss : t <= o
             ts_max == CHOOSE t \in tss : \A o \in tss : o <= t
             hours == (ts_max - ts_min) \div TicksPerHour + 1
             span_hours == IF hours > 1 THEN hours ELSE 1
             values == [k \in 1..n |-> df.rows[k].value_kw]
             clean == SelectSeq(values, LAMBDA v : v # NaNValue)
             non_null == Len(clean)
             coverage_percent == RoundHalfEven(non_null * 10000, span_hours)
             \* values.fillna(-9999), and the runs of at least
             \* _FLAT_PERIOD_MIN_HOURS hours whose value is not -9999
             filled == [k \in 1..n |-> IF values[k] = NaNValue
                                       THEN Fraction(-9999, 1) ELSE values[k]]
             flat == IF clean = << >> THEN << >>
                     ELSE SelectSeq(RunLengthEncoding(filled),
                                    LAMBDA r : r.length >= 3
                                               /\ r.val # Fraction(-9999, 1))
         IN [total_records |-> n,
             date_range |-> [start |-> ts_min, end |-> ts_max],
             coverage_percent |-> coverage_percent,
             missing_hours |-> span_hours - non_null,
             statistics |-> [mean_kw |-> Guarded(clean, Mean(clean)),
                             min_kw |-> Guarded(clean, MinOf(clean)),
                             max_kw |-> Guarded(clean, MaxOf(clean))],
             flat_periods |-> [count |-> Len(flat),
                               total_hours |->
                                  SumOf([k \in 1..Len(flat) |-> flat[k].length]),
                               min_consecutive_hours |-> 3],
             passed |-> Passed(coverage_percent)]

\* The rows of one hour of a series in a given state: a row with a value, a
\* row without a value ("null"), or no row ("absent")
RowsOf(h, state) ==
    CASE state = "value" -> << [ts |-> h * TicksPerHour,
                                value_kw |-> Fraction(10 + (h % 3), 1)] >>
      [] state = "null" -> << [ts |-> h * TicksPerHour, value_kw |-> NaNValue] >>
      [] state = "absent" -> << >>

RECURSIVE HourlyRows(_, _)
HourlyRows(states, h) ==
    IF h > Len(states) THEN << >>
    ELSE RowsOf(h - 1, states[h]) \o HourlyRows(states, h + 1)

\* Hour -> state for a series of n hours of which the hours of holes are in
\* the given state, the other hours having a value
WithHoles(n, holes, state) == [h \in 1..n |-> IF h \in holes THEN state ELSE "value"]

\* The series of the model: the empty one, those without a single value, and
\* those of at most MaxHoles hours that are null or have no row (the first
\* and the last hour have a row)
QualitySeries ==
    {NoSeries}
    \cup { [tz_aware |-> TRUE, rows |-> HourlyRows([h \in 1..n |-> "null"], 1)] :
             n \in 1..MaxSpan }
    \cup UNION { UNION { { [tz_aware |-> TRUE,
                            rows |-> HourlyRows(WithHoles(n, holes, state), 1)] :
                             state \in {st \in {"null", "absent"} :
                                           st = "null" \/ holes \cap {1, n} = {}} } :
                          holes \in {hs \in SUBSET (1..n) : Cardinality(hs) <= MaxHoles} } :
                  n \in 1..MaxSpan }

\* The hourly series of up to FlatHours rows over two values, the value
\* -9999 and the missing value
FlatSeries ==
    UNION { { [tz_aware |-> TRUE,
               rows |-> [k \in 1..n |-> [ts |-> (k - 1) * TicksPerHour,
                                         value_kw |-> vals[k]]]] :
              vals \in [1..n -> {NaNValue, Fraction(5, 1), Fraction(7, 1),
                                 Fraction(-9999, 1)}] } :
            n \in 1..FlatHours }

InitQuality ==
    /\ InitTables
    /\ settings = [weather_enrichment_enabled |-> TRUE]
    /\ weather_observations = {}
    /\ public_holidays = {}
    /\ \E df \in QualitySeries \cup FlatSeries :
         fc = [df |-> df, done |-> FALSE, report |-> [total_records |-> -1]]

\* _stage_quality_check line 119
GenerateReport ==
    /\ ~fc.done
    /\ fc' = [fc EXCEPT !.done = TRUE, !.report = QualityReport(fc.df)]
    /\ UNCHANGED << settings, jobs, time_series, forecasts, weather_observations,
                    public_holidays, broker, run, fx, calls >>
    /\ lastRead' = NoResponse

SpecQuality == InitQuality /\ [][GenerateReport]_vars

-----------------------------------------------------------------------------
(* Claims about the quality report, checked under SpecQuality *)

\* The hours from the first to the last timestamp of a series, both included
SpanOf(df) ==
    (df.rows[Len(df.rows)].ts - df.rows[1].ts) \div TicksPerHour + 1

NonNullOf(df) ==
    Cardinality({k \in 1..Len(df.rows) : df.rows[k].value_kw # NaNValue})

\* C16: for a series that is not empty, missing_hours is the span (the hours
\* from the first to the last timestamp inclusive) less the non-null count,
\* coverage_percent is non-null / span x 100 to the nearest hundredth, and
\* passed holds exactly when coverage_percent >= 95.0; a series without a
\* gap reports a coverage of 100.0, no missing hour, and passes.
C16_CoverageAndPassed ==
    (fc.done /\ fc.df.rows # << >>) =>
        LET r == fc.report
            span == SpanOf(fc.df)
            non_null == NonNullOf(fc.df)
            diff == r.coverage_percent * span - non_null * 10000
        IN /\ r.missing_hours = span - non_null
           /\ 2 * diff <= span /\ -2 * diff <= span
           /\ r.passed <=> r.coverage_percent >= 9500
           /\ non_null = span =>
                 r.coverage_percent = 10000 /\ r.missing_hours = 0 /\ r.passed

\* A series that passes at exactly 95.0: 19 values in a span of 20 hours
C16_Witness ==
    /\ fc.done
    /\ fc.df.rows # << >>
    /\ SpanOf(fc.df) = 20
    /\ NonNullOf(fc.df) = 19
    /\ fc.report.coverage_percent = 9500
    /\ fc.report.passed

\* C17: the report of an empty series, and of a series whose values are all
\* null, has passed false and no statistic.
C17_NoDataNotPassed ==
    (fc.done /\ (fc.df.rows = << >> \/ NonNullOf(fc.df) = 0)) =>
        LET r == fc.report
        IN /\ r.total_records = Len(fc.df.rows)
           /\ ~r.passed
           /\ "statistics" \in DOMAIN r =>
                 \A key \in DOMAIN r.statistics : r.statistics[key] = NoStat

\* The report of a series of rows that are all null
C17_Witness ==
    /\ fc.done
    /\ Len(fc.df.rows) >= 3
    /\ NonNullOf(fc.df) = 0
    /\ fc.report.coverage_percent = 0
    /\ fc.report.statistics.mean_kw = NoStat

\* The rows i..j of a series are a maximal run of consecutive equal values
\* that are not null
FlatRun(rows, i, j) ==
    /\ 1 <= i /\ i <= j /\ j <= Len(rows)
    /\ \A k \in i..j : rows[k].value_kw # NaNValue /\ rows[k].value_kw = rows[i].value_kw
    /\ i > 1 => rows[i - 1].value_kw # rows[i].value_kw
    /\ j < Len(rows) => rows[j + 1].value_kw # rows[i].value_kw

\* C24: flat_periods.count is the number of maximal runs of consecutive equal
\* non-null values of at least 3 hours, and total_hours is the sum of their
\* lengths, whatever values the series holds.
C24_FlatPeriods ==
    (fc.done /\ fc.df.rows # << >>) =>
        LET rows == fc.df.rows
            runs == {r \in (1..Len(rows)) \X (1..Len(rows)) :
                        FlatRun(rows, r[1], r[2]) /\ r[2] - r[1] + 1 >= 3}
        IN /\ fc.report.flat_periods.count = Cardinality(runs)
           /\ fc.report.flat_periods.total_hours =
                 Cardinality({k \in 1..Len(rows) :
                                 \E r \in runs : r[1] <= k /\ k <= r[2]})

-----------------------------------------------------------------------------
(* Claims about the parser, checked under SpecParse *)

\* The rows of the file whose timestamp can be read, in ascending order
ReadableRows(file) == SortRowsByTs(SelectSeq(file.rows, LAMBDA r : r.ts # NaT))

\* C12: for every input with a detectable timestamp and value column the
\* parser returns a non-empty sequence in ascending order of timestamp with
\* no two rows of the same timestamp and no row without a timestamp.
C12_SortedNoDuplicates ==
    (fc.done /\ fc.out.ok) =>
        /\ fc.out.rows # << >>
        /\ \A k \in 1..Len(fc.out.rows) : fc.out.rows[k].ts # NaT
        /\ \A a, b \in 1..Len(fc.out.rows) :
              a < b => fc.out.rows[a].ts < fc.out.rows[b].ts

\* C18: a value of an energy column becomes the value divided by the median
\* gap between samples in hours (times 1000 for MWh), and a value of a power
\* column is left as it is.
C18_EnergyToAveragePower ==
    (fc.done /\ fc.out.ok) =>
        LET rows == ReadableRows(fc.file)
            name == Lower(fc.out.value_col)
            kwh == Contains(name, << "k", "w", "h" >>)
            mwh == Contains(name, << "m", "w", "h" >>)
            gap == TwiceMedian(SortedDeltas([k \in 1..Len(rows) |-> rows[k].ts]))
        IN /\ Len(fc.out.rows) = Len(rows)
           /\ \A k \in 1..Len(rows) :
                LET v == rows[k].v
                    kw == fc.out.rows[k].value_kw
                IN IF v = NaN THEN kw = NaNValue
                   ELSE IF mwh THEN Len(rows) >= 2
                                      => kw.num * gap = v * 1000 * 240 * kw.den
                   ELSE IF kwh THEN Len(rows) >= 2 => kw.num * gap = v * 240 * kw.den
                   ELSE kw.num = v * kw.den

\* C20: the value column is the first column, other than the timestamp
\* column, whose name contains a value hint; without such a column the only
\* other column is adopted, and with several other columns parsing fails with
\* an error and no records.
C20_ValueColumn ==
    (fc.done /\ \E k \in 1..Len(fc.file.rows) : fc.file.rows[k].ts # NaT) =>
        LET remaining == Tail(fc.file.cols)
            hits == {i \in 1..Len(remaining) :
                        \E h \in 1..Len(VALUE_HINTS) :
                            Contains(Lower(remaining[i]), VALUE_HINTS[h])}
        IN /\ hits # {} =>
                /\ fc.out.ok
                /\ \E i \in hits : /\ fc.out.value_col = remaining[i]
                                   /\ \A o \in hits : i <= o
           /\ (hits = {} /\ Len(remaining) = 1) =>
                fc.out.ok /\ fc.out.value_col = remaining[1]
           /\ (hits = {} /\ Len(remaining) > 1) =>
                /\ ~fc.out.ok
                /\ fc.out.error = "Cannot detect value column"
                /\ fc.out.rows = << >>

\* A file with two columns that match, after one that does not: the first
\* of the two is taken
C20_Witness ==
    /\ fc.done
    /\ fc.file.cols = << << "n", "o" >>, << "k", "W", "h" >>, << "k", "W" >> >>
    /\ fc.out.ok
    /\ fc.out.value_col = << "k", "W", "h" >>

-----------------------------------------------------------------------------
(* load_weather_df over every content of the weather cache: SpecLoad *)

\* _stage_forecasting line 130: the cache is read for the forecast year
LoadWeatherDf(year) ==
    /\ fc = FcIdle
    /\ fc' = [FcIdle EXCEPT !.forecast_year = year,
                            !.weather_df = load_weather_df(year)]
    /\ UNCHANGED << settings, jobs, time_series, forecasts, weather_observations,
                    public_holidays, broker, run, fx, calls >>
    /\ lastRead' = NoResponse

\* Any hours of the forecast years may be cached
InitLoad ==
    /\ InitTables
    /\ settings = [weather_enrichment_enabled |-> TRUE]
    /\ \E hs \in SUBSET UNION {SeqRange(HoursOfYear(y)) : y \in ForecastYears} :
         weather_observations = {[key |-> h, val |-> 0] : h \in hs}
    /\ public_holidays = {}
    /\ fc = FcIdle

NextLoad == \E year \in ForecastYears : LoadWeatherDf(year)

SpecLoad == InitLoad /\ [][NextLoad]_vars

\* The year of the rows of a frame, as _align_weather_to_future reads it
\* (w["ts"].dt.year.iloc[0])
ReturnedYear(frame) == frame.rows[1].ts[1]

FrameHours(frame) == {frame.rows[k].ts : k \in 1..Len(frame.rows)}

\* C11: load_weather_df returns the rows of the requested year whenever the
\* cache holds at least one of them, the rows of the year before only when
\* the requested year is entirely absent, nothing when both are absent, and
\* the rows returned tell the caller which year they are of.
C11_LoadRequestedElseProxy ==
    fc.forecast_year # 0 =>
        LET year == fc.forecast_year
            res == fc.weather_df
            cur == Keys(CachedRows("weather", year))
            prev == Keys(CachedRows("weather", year - 1))
        IN /\ res.absent <=> (cur = {} /\ prev = {})
           /\ cur # {} => FrameHours(res) = cur /\ ReturnedYear(res) = year
           /\ (cur = {} /\ prev # {})
                 => FrameHours(res) = prev /\ ReturnedYear(res) = year - 1
           /\ ~res.absent =>
                 /\ Len(res.rows) = Cardinality(FrameHours(res))
                 /\ \A k \in 1..Len(res.rows) : res.rows[k].ts[1] = ReturnedYear(res)

\* One hour of the requested year is cached beside the whole year before
\* it, and the one hour is what is returned
C11_Witness ==
    /\ fc.forecast_year = 2025
    /\ Cardinality(CachedRows("weather", 2025)) = 1
    /\ Cardinality(CachedRows("weather", 2024)) = Len(HoursOfYear(2024))
    /\ Len(fc.weather_df.rows) = 1

-----------------------------------------------------------------------------
(* Claims about the forecaster, checked under SpecForecast *)

\* C10: for every target year and every enrichment input the sequence
\* returned by run_forecast has exactly one row per hour of the target year,
\* no duplicated hour, ascending hours and ordered bounds.
C10_OneRowPerHour ==
    fc.done =>
        LET res == fc.result
            hours == HoursOfYear(fc.forecast_year)
        IN /\ Len(res) = Len(hours)
           /\ \A k \in 1..Len(res) :
                 /\ k <= Len(hours) => res[k].hour_ts = hours[k]
                 /\ res[k].yhat_lower <= res[k].yhat
                 /\ res[k].yhat <= res[k].yhat_upper
           /\ \A a, b \in 1..Len(res) : a < b => TsLess(res[a].hour_ts, res[b].hour_ts)

\* The proxy case of _align_weather_to_future: the enrichment rows are of
\* another year than the target year
ProxyCase ==
    /\ fc.done
    /\ ~fc.weather_df.absent
    /\ fc.weather_df.rows # << >>
    /\ fc.weather_df.rows[1].ts[1] # fc.forecast_year

\* C25: when the enrichment data is a proxy from another year, the aligned
\* future frame has exactly one row per hour of the target year, in order,
\* and the row of an hour carries the regressor of the proxy hour of the same
\* month, day and hour when the proxy has that hour.
C25_ProxyAlignedOneRowPerHour ==
    ProxyCase =>
        LET hours == HoursOfYear(fc.forecast_year)
            proxy == fc.weather_df.rows
            aligned == AlignWeatherToFuture(MakeFutureDf(fc.forecast_year), proxy,
                                            fc.forecast_year)
        IN /\ Len(aligned) = Len(hours)
           /\ \A k \in 1..Len(aligned) :
                 /\ k <= Len(hours) => aligned[k].ds = hours[k]
                 /\ \A i \in 1..Len(proxy) :
                       Tail(proxy[i].ts) = Tail(aligned[k].ds)
                          => aligned[k].temperature_2m = proxy[i].temperature_2m

-----------------------------------------------------------------------------
(* The training frame of run_forecast (lines 101-147): SpecTrain *)

\* The normalized series run_forecast is given: the hours of a year, each with
\* a value or without one
TrainingSeries ==
    UNION { { [k \in 1..Len(HoursOfYear(ty)) |->
                 [ts |-> HoursOfYear(ty)[k], value_kw |-> vals[k]]] :
              vals \in [1..Len(HoursOfYear(ty)) -> {3, NaN}] } :
            ty \in {2023, 2024} }

\* The enrichment inputs of the training frame: absent, or the whole or the
\* first hour of the target year or of the year before it
TrainingWeather(forecast_year) ==
    {NoFrame} \cup
    UNION { { Frame(WeatherFrame({[key |-> h, val |-> 1] : h \in hs})) :
                hs \in {SeqRange(HoursOfYear(y)), {HoursOfYear(y)[1]}} } :
            y \in {forecast_year - 1, forecast_year} }

\* run_forecast lines 102-139: the rows with a value, and with enrichment data
\* the regressor merged on ds and its gaps filled with the column mean
TrainingFrame(df, weather_df) ==
    LET known == SelectSeq(df, LAMBDA r : r.value_kw # NaN)
        train == [k \in 1..Len(known) |-> [ds |-> known[k].ts]]
        use_weather == ~weather_df.absent /\ weather_df.rows # << >>
        w == [k \in 1..Len(weather_df.rows) |->
                [ds |-> weather_df.rows[k].ts,
                 temperature_2m |-> weather_df.rows[k].temperature_2m]]
    IN IF use_weather THEN FillNa(LeftMerge(train, w)) ELSE train

\* m.fit(train): the engine refuses a frame of fewer than two rows and a
\* regressor column with a missing value
EngineFit(train) ==
    IF Len(train) < 2
       \/ \E k \in 1..Len(train) :
             "temperature_2m" \in DOMAIN train[k] /\ train[k].temperature_2m = NaN
    THEN "ValueError" ELSE "fitted"

InitTrain ==
    /\ InitTables
    /\ settings = [weather_enrichment_enabled |-> TRUE]
    /\ weather_observations = {}
    /\ public_holidays = {}
    /\ \E y \in ForecastYears, df \in TrainingSeries :
         \E w \in TrainingWeather(y) :
            fc = [forecast_year |-> y, df |-> df, weather_df |-> w, done |-> FALSE,
                  train |-> << >>, fit_called |-> FALSE, raised |-> None]

\* run_forecast up to m.fit(train), line 147: fit is called with the frame
\* whatever it holds
FitTraining ==
    /\ ~fc.done
    /\ LET train == TrainingFrame(fc.df, fc.weather_df)
       IN fc' = [fc EXCEPT !.done = TRUE, !.train = train, !.fit_called = TRUE,
                           !.raised = IF EngineFit(train) = "fitted" THEN None
                                      ELSE EngineFit(train)]
    /\ UNCHANGED << settings, jobs, time_series, forecasts, weather_observations,
                    public_holidays, broker, run, fx, calls >>
    /\ lastRead' = NoResponse

SpecTrain == InitTrain /\ [][FitTraining]_vars

-----------------------------------------------------------------------------
(* Claims about the training frame, checked under SpecTrain *)

\* C21: when the training series is empty after the rows without a value are
\* dropped, run_forecast fails with an error and the engine's fit is not
\* invoked.
C21_EmptyTrainingFailsBeforeFit ==
    (fc.done /\ \A k \in 1..Len(fc.df) : fc.df[k].value_kw = NaN) =>
        /\ fc.raised # None
        /\ ~fc.fit_called

\* C28: with enrichment data present, no row of the training frame has a
\* missing regressor after the left join and the mean fill.
C28_NoMissingRegressor ==
    (fc.done /\ ~fc.weather_df.absent /\ fc.weather_df.rows # << >>) =>
        \A k \in 1..Len(fc.train) : fc.train[k].temperature_2m # NaN

====
